---------------------------- MODULE Spec2Model ----------------------------
(* A model of korean_polisher/train/transformer.py: the mask builders,     *)
(* the masked loss, the accuracy metric fed by train_step / evaluate, the  *)
(* greedy decoding loop of Transformer.predict, Transformer.demo and the   *)
(* checkpoint bookkeeping of Transformer.ckpt_save.                        *)
(*                                                                         *)
(* Tensors are sequences: a (batch, seq) id tensor is a sequence of rows,  *)
(* a mask of shape (batch, 1, 1, seq) is nested the same way.  Float 0.0   *)
(* and 1.0 of the masks are written 0 and 1.                               *)
EXTENDS Integers, Sequences, FiniteSets

VARIABLES
    fn, args, ret,                 \* the last application of a pure function
    pc, encoder_input, output, result, i, decoded,     \* Transformer.predict
    tar_real, predictions,         \* the batch of the last metric update
    train_accuracy, test_accuracy, \* SparseCategoricalAccuracy: total, count
    ev_pc, steps, last,            \* evaluate's position, updates, last metric
    dir_exists, latest_epoch, latest_batch_iter,   \* the checkpoint directory
    checkpoints, save_counter,     \* CheckpointManager and Checkpoint
    saved, newest_point,           \* history: snapshots written, point of newest
    demo_pc, demo_lines, demo_idx, attempted, demo_log     \* Transformer.demo

pureVars == <<fn, args, ret>>
predictVars == <<pc, encoder_input, output, result, i, decoded>>
trainVars == <<tar_real, predictions, train_accuracy, test_accuracy, ev_pc, steps, last>>
ckptVars == <<dir_exists, latest_epoch, latest_batch_iter, checkpoints,
              save_counter, saved, newest_point>>
demoVars == <<demo_pc, demo_lines, demo_idx, attempted, demo_log>>
vars == <<pureVars, predictVars, trainVars, ckptVars, demoVars>>

(***************************************************************************)
(* The state of each part before it is used.                               *)
(***************************************************************************)
PureInit ==
    /\ fn = "none"
    /\ args = <<>>
    /\ ret = <<>>

PredictIdle ==
    /\ pc = "idle"
    /\ encoder_input = <<>>
    /\ output = <<>>
    /\ result = <<>>
    /\ i = 0
    /\ decoded = <<>>

\* a Mean-style metric after reset_states()
ResetMetric == [total |-> 0, count |-> 0]

TrainInit ==
    /\ tar_real = <<>>
    /\ predictions = <<>>
    /\ train_accuracy = ResetMetric
    /\ test_accuracy = ResetMetric
    /\ ev_pc = "idle"
    /\ steps = 0
    /\ last = "none"

\* no sidecar file, no snapshot
NoPoint == [epoch |-> -1, batch_iter |-> -1]

CkptEmpty ==
    /\ dir_exists = FALSE
    /\ latest_epoch = -1
    /\ latest_batch_iter = -1
    /\ checkpoints = <<>>
    /\ save_counter = 0
    /\ saved = <<>>
    /\ newest_point = NoPoint

DemoIdle ==
    /\ demo_pc = "idle"
    /\ demo_lines = <<>>
    /\ demo_idx = 0
    /\ attempted = {}
    /\ demo_log = <<>>

(***************************************************************************)
(* Bounds of the model.                                                    *)
(***************************************************************************)
\* largest token id drawn for the id tensors given to the mask builders
MaxId == 2
\* largest number of cells (batch * seq_len) of such an id tensor
MaxCells == 3
\* largest size given to create_look_ahead_mask on its own
MaxSize == 4

\* reserved token ids
PAD_ID == 0
START_ID == 2
END_ID == 3

Max(a, b) == IF a >= b THEN a ELSE b

(***************************************************************************)
(* Id tensors of shape (B, L).                                             *)
(***************************************************************************)
Rows(ids, L) == [1..L -> ids]

Batches(ids, B) ==
    UNION {[1..B -> Rows(ids, L)] : L \in {n \in 0..MaxCells : B * n <= MaxCells}}

SeqLen(seq) == Len(seq[1])

\* the input batch of the documented scenario
ScenarioInp == << <<4, 5, 6, 0, 0>> >>

(***************************************************************************)
(* create_padding_mask(seq): tf.equal(seq, 0) cast to float, reshaped to   *)
(* (batch_size, 1, 1, seq_len).                                            *)
(***************************************************************************)
create_padding_mask_inverted(seq) ==
    [b \in 1..Len(seq) |->
        << << [j \in 1..SeqLen(seq) |-> IF seq[b][j] = PAD_ID THEN 0 ELSE 1] >> >>]

create_padding_mask(seq) ==
    [b \in 1..Len(seq) |->
        << << [j \in 1..SeqLen(seq) |-> IF seq[b][j] = PAD_ID THEN 1 ELSE 0] >> >>]

(***************************************************************************)
(* tf.ones((n, n)) and tf.linalg.band_part(m, num_lower, num_upper): entry *)
(* (r, c) is kept when (num_lower < 0 or r - c <= num_lower) and           *)
(* (num_upper < 0 or c - r <= num_upper), and set to 0 otherwise.          *)
(***************************************************************************)
ones(n) == [r \in 1..n |-> [c \in 1..n |-> 1]]

band_part(m, num_lower, num_upper) ==
    [r \in 1..Len(m) |-> [c \in 1..Len(m) |->
        IF /\ (num_lower < 0 \/ r - c <= num_lower)
           /\ (num_upper < 0 \/ c - r <= num_upper)
        THEN m[r][c] ELSE 0]]

create_look_ahead_mask_keep_upper(size) ==
    LET kept == band_part(ones(size), 0, -1)
    IN  [r \in 1..size |-> [c \in 1..size |-> 1 - kept[r][c]]]

create_look_ahead_mask(size) ==
    LET kept == band_part(ones(size), -1, 0)
    IN  [r \in 1..size |-> [c \in 1..size |-> 1 - kept[r][c]]]

(***************************************************************************)
(* tf.maximum(dec_target_padding_mask, look_ahead_mask): shapes            *)
(* (B, 1, 1, T) and (T, T) broadcast to (B, 1, T, T).                      *)
(***************************************************************************)
combine_masks_look_ahead_only(dec_target_padding_mask, look_ahead_mask) ==
    [b \in 1..Len(dec_target_padding_mask) |-> << look_ahead_mask >>]

combine_masks(dec_target_padding_mask, look_ahead_mask) ==
    [b \in 1..Len(dec_target_padding_mask) |->
        << [r \in 1..Len(look_ahead_mask) |-> [c \in 1..Len(look_ahead_mask) |->
              Max(dec_target_padding_mask[b][1][1][c], look_ahead_mask[r][c])]] >>]

\* create_masks(inp, tar): <<enc_padding_mask, combined_mask, dec_padding_mask>>
create_masks(inp, tar) ==
    LET enc_padding_mask == create_padding_mask(inp)
        dec_padding_mask == create_padding_mask(inp)
        look_ahead_mask == create_look_ahead_mask(SeqLen(tar))
        dec_target_padding_mask == create_padding_mask(tar)
        combined_mask == combine_masks(dec_target_padding_mask, look_ahead_mask)
    IN  <<enc_padding_mask, combined_mask, dec_padding_mask>>

(***************************************************************************)
(* The mask builders applied to bounded inputs.  They are pure: a behaviour *)
(* is one application, recorded in fn, args and ret.                       *)
(***************************************************************************)
MaskIds == 0..MaxId
BatchSizes == 1..MaxCells

InitMasks == PureInit /\ PredictIdle /\ TrainInit /\ CkptEmpty /\ DemoIdle

call_create_padding_mask ==
    /\ fn = "none"
    /\ \E B \in BatchSizes : \E seq \in Batches(MaskIds, B) \cup {ScenarioInp} :
        /\ fn' = "create_padding_mask"
        /\ args' = <<seq>>
        /\ ret' = create_padding_mask(seq)
        /\ UNCHANGED <<predictVars, trainVars, ckptVars, demoVars>>

call_create_look_ahead_mask ==
    /\ fn = "none"
    /\ \E size \in 0..MaxSize :
        /\ fn' = "create_look_ahead_mask"
        /\ args' = <<size>>
        /\ ret' = create_look_ahead_mask(size)
        /\ UNCHANGED <<predictVars, trainVars, ckptVars, demoVars>>

call_create_masks ==
    /\ fn = "none"
    /\ \E B \in BatchSizes :
      \E inp \in Batches(MaskIds, B) \cup {s \in {ScenarioInp} : Len(s) = B} :
        \E tar \in Batches(MaskIds, B) :
            /\ fn' = "create_masks"
            /\ args' = <<inp, tar>>
            /\ ret' = create_masks(inp, tar)
            /\ UNCHANGED <<predictVars, trainVars, ckptVars, demoVars>>

NextMasks ==
    \/ call_create_padding_mask
    \/ call_create_look_ahead_mask
    \/ call_create_masks

SpecMasks == InitMasks /\ [][NextMasks]_vars

\* C3: create_padding_mask(seq) is 1 exactly at the pad positions and 0
\* elsewhere, and the encoder padding mask of create_masks for the input
\* [[4,5,6,0,0]] is [[[[0,0,0,1,1]]]] whatever the target batch is.
C3_PaddingMask ==
    /\ fn = "create_padding_mask" =>
          /\ Len(ret) = Len(args[1])
          /\ \A b \in 1..Len(args[1]) :
                /\ Len(ret[b]) = 1
                /\ Len(ret[b][1]) = 1
                /\ Len(ret[b][1][1]) = SeqLen(args[1])
                /\ \A j \in 1..SeqLen(args[1]) :
                      /\ ret[b][1][1][j] \in {0, 1}
                      /\ ret[b][1][1][j] = 1 <=> args[1][b][j] = 0
    /\ (fn = "create_masks" /\ args[1] = ScenarioInp) =>
          ret[1] = << << << <<0, 0, 0, 1, 1>> >> >> >>

C3_Witness ==
    /\ fn = "create_masks"
    /\ args[1] = ScenarioInp
    /\ SeqLen(args[2]) = MaxCells
    /\ args[2][1][1] # PAD_ID

\* C4: create_look_ahead_mask(n) is an n-by-n matrix whose entry (r, c) is 1
\* exactly when c > r and 0 otherwise, so it holds n*(n-1)/2 ones.
C4_LookAheadMask ==
    fn = "create_look_ahead_mask" =>
        LET n == args[1]
            onesAt == {rc \in (1..n) \X (1..n) : ret[rc[1]][rc[2]] = 1}
        IN  /\ Len(ret) = n
            /\ \A r \in 1..n :
                  /\ Len(ret[r]) = n
                  /\ \A c \in 1..n :
                        /\ ret[r][c] \in {0, 1}
                        /\ ret[r][c] = 1 <=> c > r
            /\ 2 * Cardinality(onesAt) = n * (n - 1)

C4_Witness ==
    /\ fn = "create_look_ahead_mask"
    /\ args[1] = MaxSize
    /\ ret[1][MaxSize] = 1
    /\ ret[MaxSize][1] = 0

\* C9: the second element of create_masks(inp, tar) is 1 at (b, r, c) exactly
\* when c > r or tar[b][c] is pad, and the first and third elements are both
\* the padding mask of inp.
C9_CombinedMask ==
    fn = "create_masks" =>
        LET inp == args[1]
            tar == args[2]
            T == SeqLen(tar)
            IsPadMaskOf(m, seq) ==
                /\ Len(m) = Len(seq)
                /\ \A b \in 1..Len(seq) :
                      /\ m[b] = << << m[b][1][1] >> >>
                      /\ Len(m[b][1][1]) = SeqLen(seq)
                      /\ \A j \in 1..SeqLen(seq) :
                            m[b][1][1][j] = IF seq[b][j] = 0 THEN 1 ELSE 0
        IN  /\ Len(ret) = 3
            /\ IsPadMaskOf(ret[1], inp)
            /\ IsPadMaskOf(ret[3], inp)
            /\ Len(ret[2]) = Len(tar)
            /\ \A b \in 1..Len(tar) :
                  /\ Len(ret[2][b]) = 1
                  /\ Len(ret[2][b][1]) = T
                  /\ \A r \in 1..T :
                        /\ Len(ret[2][b][1][r]) = T
                        /\ \A c \in 1..T :
                              /\ ret[2][b][1][r][c] \in {0, 1}
                              /\ ret[2][b][1][r][c] = 1 <=> (c > r \/ tar[b][c] = 0)

\* a pad position at or before the diagonal is suppressed by the padding
\* mask alone, in a batch of more than one row
C9_Witness ==
    /\ fn = "create_masks"
    /\ Len(args[2]) > 1
    /\ \E b \in 1..Len(args[2]) : \E r \in 1..SeqLen(args[2]) :
          \E c \in 1..r : args[2][b][c] = 0 /\ ret[2][b][1][r][c] = 1
    /\ \E b \in 1..Len(args[2]) : \E c \in 1..SeqLen(args[2]) : args[2][b][c] # 0

(***************************************************************************)
(* Transformer.predict: greedy decoding.  The forward pass and the argmax  *)
(* over its last position are the model's behaviour: predicted_id is any   *)
(* id of the vocabulary.  output is the (1, n) decoder tensor, result the  *)
(* Python list handed to the tokenizer's decode, i the number of forward   *)
(* passes performed, decoded the ids given to tk.decode (<<>> before).     *)
(***************************************************************************)
\* options.MAX_LENGTH, the decode limit (its model value)
MAX_LENGTH == 3
\* largest id of the target vocabulary
MaxVocabId == 4

VocabIds == 0..MaxVocabId

\* tokenize_batch([[inp_sentence]], tk): one row of ids
EncoderInputs == {<<r>> : r \in Rows(1..MaxId, 1) \cup Rows(1..MaxId, 2)}

is_end_never(predicted_id) == FALSE

\* predicted_id == 3
is_end(predicted_id) == predicted_id = END_ID

result_at_end_appended(res, predicted_id) == Append(res, predicted_id)

\* the list decoded when the end token is selected: result as it is
result_at_end(res, predicted_id) == res

predict_begin ==
    /\ pc \in {"idle", "done"}
    /\ \E enc \in EncoderInputs : encoder_input' = enc
    /\ output' = << <<START_ID>> >>
    /\ result' = <<START_ID>>
    /\ i' = 0
    /\ IF MAX_LENGTH = 0
       THEN pc' = "done" /\ decoded' = <<START_ID>>
       ELSE pc' = "loop" /\ decoded' = <<>>
    /\ UNCHANGED <<pureVars, trainVars, ckptVars, demoVars>>

\* one iteration of the loop, with the return that ends it
predict_pass ==
    /\ pc = "loop"
    /\ i < MAX_LENGTH
    /\ \E predicted_id \in VocabIds :
          /\ output' = << Append(output[1], predicted_id) >>
          /\ i' = i + 1
          /\ IF is_end(predicted_id)
             THEN /\ decoded' = result_at_end(result, predicted_id)
                  /\ result' = result
                  /\ pc' = "done"
             ELSE /\ result' = Append(result, predicted_id)
                  /\ IF i + 1 = MAX_LENGTH
                     THEN pc' = "done" /\ decoded' = result'
                     ELSE pc' = "loop" /\ decoded' = <<>>
    /\ UNCHANGED <<encoder_input, pureVars, trainVars, ckptVars, demoVars>>

InitPredict == PureInit /\ PredictIdle /\ TrainInit /\ CkptEmpty /\ DemoIdle

NextPredict ==
    \/ predict_begin
    \/ predict_pass

SpecPredict == InitPredict /\ [][NextPredict]_vars

\* the ids selected by the passes so far
Selected == Tail(output[1])

\* C1: predict performs at most MAX_LENGTH forward passes; while it runs no
\* pass has selected the end token and a further pass is possible; it has
\* returned exactly at the first pass that selected the end token (3), or
\* else after exactly MAX_LENGTH passes.
C1_PredictTerminates ==
    pc \in {"loop", "done"} =>
        /\ i = Len(Selected)
        /\ i <= MAX_LENGTH
        /\ \A k \in 1..(i - 1) : Selected[k] # 3
        /\ pc = "loop" =>
              /\ i < MAX_LENGTH
              /\ \A k \in 1..i : Selected[k] # 3
              /\ ENABLED predict_pass
        /\ pc = "done" =>
              /\ ~ ENABLED predict_pass
              /\ \/ i >= 1 /\ Selected[i] = 3
                 \/ i = MAX_LENGTH /\ \A k \in 1..i : Selected[k] # 3

C1_Witness ==
    /\ pc = "done"
    /\ i = 2
    /\ i < MAX_LENGTH
    /\ Selected[1] # 3
    /\ Selected[2] = 3

\* C2: the ids handed to tk.decode never contain the end token 3: they are
\* the start id 2 followed by the selected ids other than the terminal 3.
C2_DecodedWithoutEnd ==
    pc = "done" =>
        /\ \A k \in 1..Len(decoded) : decoded[k] # 3
        /\ decoded = IF i >= 1 /\ Selected[i] = 3
                     THEN <<2>> \o SubSeq(Selected, 1, i - 1)
                     ELSE <<2>> \o Selected

C2_Witness ==
    /\ pc = "done"
    /\ i >= 2
    /\ Selected[i] = 3
    /\ Len(decoded) = i
    /\ decoded[Len(decoded)] = Selected[i - 1]

(***************************************************************************)
(* loss_function(real, pred).  real is a (B, T) id tensor, pred a          *)
(* (B, T, V) tensor of logits.  Reals are fixed-point: logits are whole    *)
(* numbers, exponentials and logarithms are in thousandths, and the        *)
(* returned quotient reduce_sum(loss_) / reduce_sum(mask) is kept as its   *)
(* numerator and denominator (0 / 0 is the float NaN).                     *)
(***************************************************************************)
\* largest label id of the targets: the classes are 0..MaxLabel
MaxLabel == 2
\* largest number of cells (B * T) of a target given to loss_function
MaxLossCells == 2

Labels == 0..MaxLabel
NumClasses == MaxLabel + 1

\* a logits vector raised at class k (k in Labels), or flat (k = -1)
Peak(k) == [c \in 1..NumClasses |-> IF c = k + 1 THEN 1 ELSE 0]
LogitRows == {Peak(k) : k \in -1..MaxLabel}

LossTargets(B) ==
    UNION {[1..B -> Rows(Labels, T)] : T \in {n \in 0..MaxLossCells : B * n <= MaxLossCells}}

Logits(B, T) == [1..B -> [1..T -> LogitRows]]

RECURSIVE SumSeq(_)
SumSeq(s) == IF s = <<>> THEN 0 ELSE Head(s) + SumSeq(Tail(s))

\* sum of all cells of a (B, T) tensor
reduce_sum(t) == SumSeq([b \in 1..Len(t) |-> SumSeq(t[b])])

\* 1000 * e^l for a whole l >= 0
RECURSIVE ExpMilli(_)
ExpMilli(l) == IF l = 0 THEN 1000 ELSE (ExpMilli(l - 1) * 2718) \div 1000

\* 1000 * ln(x / 1000) for x >= 1000: halve to [1000, 2000), then the
\* series 2 * (z + z^3/3 + z^5/5) with z = (m - 1) / (m + 1)
RECURSIVE LnMilli(_)
LnMilli(x) ==
    IF x >= 2000 THEN 693 + LnMilli(x \div 2)
    ELSE LET z == ((x - 1000) * 1000) \div (x + 1000)
             z2 == (z * z) \div 1000
             z3 == (z2 * z) \div 1000
             z5 == (z3 * z2) \div 1000
         IN  2 * z + (2 * z3) \div 3 + (2 * z5) \div 5

\* SparseCategoricalCrossentropy(from_logits=True, reduction='none') at one
\* position: -log softmax(logits)[label] = ln(sum_c e^logits[c]) - logits[label]
cross_entropy(label, logits) ==
    LnMilli(SumSeq([c \in 1..Len(logits) |-> ExpMilli(logits[c])]))
        - 1000 * logits[label + 1]

loss_function_unmasked(real, pred) ==
    LET mask == [b \in 1..Len(real) |-> [t \in 1..SeqLen(real) |->
                    IF real[b][t] # 0 THEN 1 ELSE 0]]
        loss_ == [b \in 1..Len(real) |-> [t \in 1..SeqLen(real) |->
                    cross_entropy(real[b][t], pred[b][t])]]
    IN  [num |-> reduce_sum(loss_), den |-> reduce_sum(mask)]

loss_function(real, pred) ==
    LET mask == [b \in 1..Len(real) |-> [t \in 1..SeqLen(real) |->
                    IF real[b][t] # 0 THEN 1 ELSE 0]]
        loss_ == [b \in 1..Len(real) |-> [t \in 1..SeqLen(real) |->
                    cross_entropy(real[b][t], pred[b][t])]]
        masked == [b \in 1..Len(real) |-> [t \in 1..SeqLen(real) |->
                    loss_[b][t] * mask[b][t]]]
    IN  [num |-> reduce_sum(masked), den |-> reduce_sum(mask)]

call_loss_function ==
    /\ fn = "none"
    /\ \E B \in 1..MaxLossCells : \E real \in LossTargets(B) :
         \E pred \in Logits(B, SeqLen(real)) :
            /\ fn' = "loss_function"
            /\ args' = <<real, pred>>
            /\ ret' = loss_function(real, pred)
    /\ UNCHANGED <<predictVars, trainVars, ckptVars, demoVars>>

InitLoss == PureInit /\ PredictIdle /\ TrainInit /\ CkptEmpty /\ DemoIdle

NextLoss == call_loss_function

SpecLoss == InitLoss /\ [][NextLoss]_vars

\* two returned quotients are the same float: both NaN, or equal fractions
SameLoss(a, b) ==
    IF a.den = 0 \/ b.den = 0 THEN a.den = b.den
    ELSE a.num * b.den = b.num * a.den

\* the tensor t with cell (b, k) replaced by v
Replaced(t, b, k, v) == [t EXCEPT ![b][k] = v]

\* C5 as stated: replacing the label of a pad position of the target with
\* any other id leaves the returned loss unchanged.
C5_LabelAtPadIrrelevant ==
    fn = "loss_function" =>
        \A b \in 1..Len(args[1]) : \A k \in 1..SeqLen(args[1]) :
            args[1][b][k] = 0 =>
                \A v \in Labels \ {0} :
                    SameLoss(loss_function(Replaced(args[1], b, k, v), args[2]), ret)

\* C5 as amended: the loss does not depend on the prediction at a pad
\* position of the target: replacing the logits predicted there with any
\* other logits leaves the returned loss unchanged.
C5_PredictionAtPadIrrelevant ==
    fn = "loss_function" =>
        \A b \in 1..Len(args[1]) : \A k \in 1..SeqLen(args[1]) :
            args[1][b][k] = 0 =>
                \A l \in LogitRows :
                    SameLoss(loss_function(args[1], Replaced(args[2], b, k, l)), ret)

\* a target with a pad and a real position, the prediction at the pad peaked
C5_Witness ==
    /\ fn = "loss_function"
    /\ SeqLen(args[1]) >= 2
    /\ args[1][1][1] # 0
    /\ args[1][1][2] = 0
    /\ args[2][1][2] # Peak(-1)
    /\ ret.den = 1
    /\ ret.num > 0

(***************************************************************************)
(* The accuracy recorded by train_step and evaluate: a                     *)
(* tf.keras.metrics.SparseCategoricalAccuracy, called as                   *)
(* metric(tar_real, predictions) with no sample weight.  It keeps total    *)
(* (the matches) and count (the positions seen); its result is             *)
(* total / count.  The forward pass is the model's behaviour: predictions  *)
(* is any logits tensor of the right shape.  The weights, the optimizer    *)
(* and the running mean of the loss are read by no statement below and     *)
(* are not part of the state.                                              *)
(***************************************************************************)
\* largest number of metric updates in a behaviour
MaxSteps == 2

\* tf.argmax over the last axis: the first class holding the largest logit
argmax(logits) ==
    CHOOSE c \in 0..(Len(logits) - 1) :
        /\ \A d \in 0..(Len(logits) - 1) : logits[d + 1] <= logits[c + 1]
        /\ \A d \in 0..(c - 1) : logits[d + 1] < logits[c + 1]

\* SparseCategoricalAccuracy.update_state(y_true, y_pred)
update_state(metric, y_true, y_pred) ==
    LET matches == [b \in 1..Len(y_true) |-> [t \in 1..SeqLen(y_true) |->
                      IF argmax(y_pred[b][t]) = y_true[b][t] THEN 1 ELSE 0]]
    IN  [total |-> metric.total + reduce_sum(matches),
         count |-> metric.count + Len(y_true) * SeqLen(y_true)]

\* a target batch of the dataset: every row opens with the start token
WithStart(real) == [b \in 1..Len(real) |-> <<START_ID>> \o real[b]]

\* tar[:, 1:]
DropFirst(tar) == [b \in 1..Len(tar) |-> Tail(tar[b])]

\* tar[:, :-1]
DropLast(tar) == [b \in 1..Len(tar) |-> SubSeq(tar[b], 1, Len(tar[b]) - 1)]

\* Transformer.train_step(inp, tar), as far as the accuracy goes
train_step ==
    /\ ev_pc # "batches"
    /\ steps < MaxSteps
    /\ \E B \in 1..MaxLossCells : \E real \in LossTargets(B) :
         LET tar == WithStart(real)
             tar_inp == DropLast(tar)
         IN  \E pred \in Logits(B, SeqLen(tar_inp)) :
                /\ tar_real' = DropFirst(tar)
                /\ predictions' = pred
                /\ train_accuracy' = update_state(train_accuracy, DropFirst(tar), pred)
    /\ steps' = steps + 1
    /\ last' = "train"
    /\ UNCHANGED <<test_accuracy, ev_pc, pureVars, predictVars, ckptVars, demoVars>>

\* Transformer.evaluate: the new test metrics, reset
evaluate_begin ==
    /\ ev_pc \in {"idle", "returned"}
    /\ ev_pc' = "batches"
    /\ test_accuracy' = ResetMetric
    /\ last' = IF last = "test" THEN "none" ELSE last
    /\ UNCHANGED <<tar_real, predictions, train_accuracy, steps,
                   pureVars, predictVars, ckptVars, demoVars>>

\* Transformer.evaluate: one batch of the loop
evaluate_batch ==
    /\ ev_pc = "batches"
    /\ steps < MaxSteps
    /\ \E B \in 1..MaxLossCells : \E real \in LossTargets(B) :
         LET tar == WithStart(real)
             tar_inp == DropLast(tar)
         IN  \E pred \in Logits(B, SeqLen(tar_inp)) :
                /\ tar_real' = DropFirst(tar)
                /\ predictions' = pred
                /\ test_accuracy' = update_state(test_accuracy, DropFirst(tar), pred)
    /\ steps' = steps + 1
    /\ last' = "test"
    /\ UNCHANGED <<train_accuracy, ev_pc, pureVars, predictVars, ckptVars, demoVars>>

\* Transformer.evaluate: the loop is over, the results are returned
evaluate_return ==
    /\ ev_pc = "batches"
    /\ ev_pc' = "returned"
    /\ UNCHANGED <<tar_real, predictions, train_accuracy, test_accuracy, steps, last,
                   pureVars, predictVars, ckptVars, demoVars>>

InitTrain == PureInit /\ PredictIdle /\ TrainInit /\ CkptEmpty /\ DemoIdle

NextTrain ==
    \/ train_step
    \/ evaluate_begin
    \/ evaluate_batch
    \/ evaluate_return

SpecTrain == InitTrain /\ [][NextTrain]_vars

\* the metric that received the batch (tar_real, predictions)
LastMetric == IF last = "train" THEN train_accuracy ELSE test_accuracy

NonPadCount ==
    reduce_sum([b \in 1..Len(tar_real) |-> [t \in 1..SeqLen(tar_real) |->
        IF tar_real[b][t] # 0 THEN 1 ELSE 0]])

NonPadMatches ==
    reduce_sum([b \in 1..Len(tar_real) |-> [t \in 1..SeqLen(tar_real) |->
        IF tar_real[b][t] # 0 /\ argmax(predictions[b][t]) = tar_real[b][t]
        THEN 1 ELSE 0]])

\* C6: the accuracy recorded by train_step and evaluate never counts pad
\* positions: after the first batch given to a reset metric, its result
\* total / count is the fraction of the non-pad target positions where the
\* argmax of the prediction equals the target.
C6_AccuracyIgnoresPad ==
    (/\ last # "none"
     /\ LastMetric.count = Len(tar_real) * SeqLen(tar_real)
     /\ NonPadCount > 0)
        => LastMetric.total * NonPadCount = NonPadMatches * LastMetric.count

(***************************************************************************)
(* Transformer.ckpt_save(epoch, batch_iter) and the CheckpointManager      *)
(* built with max_to_keep=5.  latest_epoch and latest_batch_iter are the   *)
(* contents of the two sidecar files (-1: no file), checkpoints the        *)
(* numbers of the snapshots the manager retains, oldest first.  saved is   *)
(* the history of the snapshots written and newest_point the (epoch,       *)
(* batch_iter) of the call that wrote the newest of them.  A call may      *)
(* fail where it opens a file or writes the snapshot; what it did before   *)
(* stays done.  The manager takes the next number from the checkpoint's    *)
(* save_counter before it writes, so a failed write uses a number up.      *)
(***************************************************************************)
max_to_keep == 5
\* largest number of snapshots asked of the manager in a behaviour
MaxSaves == 7
\* largest epoch and batch index given to ckpt_save
MaxEpoch == 1
MaxBatchIter == 1

Failures == {"none", "epoch_file", "batch_file", "snapshot"}

sweep_keeps_one_more(cps) ==
    IF Len(cps) > max_to_keep + 1
    THEN SubSeq(cps, Len(cps) - max_to_keep, Len(cps))
    ELSE cps

\* CheckpointManager._sweep: delete the oldest while more than max_to_keep
sweep(cps) ==
    IF Len(cps) > max_to_keep
    THEN SubSeq(cps, Len(cps) - max_to_keep + 1, Len(cps))
    ELSE cps

ckpt_save ==
    /\ save_counter < MaxSaves
    /\ \E epoch \in 0..MaxEpoch, batch_iter \in 0..MaxBatchIter, failure \in Failures :
          /\ dir_exists' = TRUE
          /\ latest_epoch' = IF failure = "epoch_file" THEN latest_epoch ELSE epoch
          /\ latest_batch_iter' = IF failure \in {"epoch_file", "batch_file"}
                                  THEN latest_batch_iter ELSE batch_iter
          /\ save_counter' = IF failure \in {"none", "snapshot"}
                             THEN save_counter + 1 ELSE save_counter
          /\ IF failure = "none"
             THEN /\ checkpoints' = sweep(Append(checkpoints, save_counter + 1))
                  /\ saved' = Append(saved, save_counter + 1)
                  /\ newest_point' = [epoch |-> epoch, batch_iter |-> batch_iter]
             ELSE UNCHANGED <<checkpoints, saved, newest_point>>
    /\ UNCHANGED <<pureVars, predictVars, trainVars, demoVars>>

InitCkpt == PureInit /\ PredictIdle /\ TrainInit /\ CkptEmpty /\ DemoIdle

NextCkpt == ckpt_save

SpecCkpt == InitCkpt /\ [][NextCkpt]_vars

\* the last n elements of s (all of s when it is shorter)
LastN(s, n) == IF Len(s) > n THEN SubSeq(s, Len(s) - n + 1, Len(s)) ELSE s

\* C7: after any sequence of ckpt_save calls at most 5 snapshots are
\* retained and they are the 5 most recently written ones.
C7_RetainsNewestFive ==
    /\ Len(checkpoints) <= 5
    /\ checkpoints = LastN(saved, 5)

C7_Witness ==
    /\ Len(saved) >= 7
    /\ Len(checkpoints) = 5
    /\ checkpoints[1] = saved[Len(saved) - 4]
    /\ checkpoints[1] > saved[1]

\* C10: after any sequence of ckpt_save calls, failed ones included, the
\* sidecar files hold the epoch and batch index of the newest retained
\* snapshot, and describe no save whose snapshot was not written.
C10_SidecarsMatchNewestSnapshot ==
    IF checkpoints = <<>>
    THEN latest_epoch = -1 /\ latest_batch_iter = -1
    ELSE /\ latest_epoch = newest_point.epoch
         /\ latest_batch_iter = newest_point.batch_iter

(***************************************************************************)
(* Transformer.demo.  demo.txt is a string over a letter and the newline;  *)
(* predict either returns or raises.  demo_lines is d.split('\n'),         *)
(* demo_idx the index of the next line of the loop, attempted the indexes  *)
(* of the lines given to predict, demo_log what was printed.               *)
(***************************************************************************)
\* largest length of demo.txt
MaxFileLen == 4

Chars == {"a", "\n"}
Files == UNION {[1..n -> Chars] : n \in 0..MaxFileLen}

\* str.split('\n')
RECURSIVE split(_)
split(d) ==
    IF \A k \in 1..Len(d) : d[k] # "\n" THEN <<d>>
    ELSE LET k == CHOOSE j \in 1..Len(d) :
                      d[j] = "\n" /\ \A h \in 1..(j - 1) : d[h] # "\n"
         IN  <<SubSeq(d, 1, k - 1)>> \o split(SubSeq(d, k + 1, Len(d)))

\* open('./demo.txt') and f.read(), or the exception they raise
demo_begin ==
    /\ demo_pc \in {"idle", "done"}
    /\ demo_idx' = 1
    /\ attempted' = {}
    /\ \/ \E d \in Files :
             /\ demo_lines' = split(d)
             /\ demo_log' = <<>>
             /\ demo_pc' = "loop"
       \/ /\ demo_lines' = <<>>
          /\ demo_log' = << <<"demo error", 0>> >>
          /\ demo_pc' = "done"
    /\ UNCHANGED <<pureVars, predictVars, trainVars, ckptVars>>

\* one iteration of the loop over the lines; an exception raised by predict
\* leaves the loop for the handler around it
demo_line ==
    /\ demo_pc = "loop"
    /\ IF Len(demo_lines[demo_idx]) = 0
       THEN /\ UNCHANGED <<attempted, demo_log>>
            /\ demo_idx' = demo_idx + 1
            /\ demo_pc' = IF demo_idx = Len(demo_lines) THEN "done" ELSE "loop"
       ELSE /\ attempted' = attempted \cup {demo_idx}
            /\ \/ /\ demo_log' = demo_log \o << <<"line", demo_idx>>, <<"predicted", demo_idx>> >>
                  /\ demo_idx' = demo_idx + 1
                  /\ demo_pc' = IF demo_idx = Len(demo_lines) THEN "done" ELSE "loop"
               \/ /\ demo_log' = demo_log \o << <<"line", demo_idx>>, <<"demo error", demo_idx>> >>
                  /\ demo_idx' = demo_idx
                  /\ demo_pc' = "done"
    /\ UNCHANGED <<demo_lines, pureVars, predictVars, trainVars, ckptVars>>

InitDemo == PureInit /\ PredictIdle /\ TrainInit /\ CkptEmpty /\ DemoIdle

NextDemo ==
    \/ demo_begin
    \/ demo_line

SpecDemo == InitDemo /\ [][NextDemo]_vars

\* C8: a failure of the read or of one prediction is caught and logged and
\* does not abort the remaining lines: when demo is over, every non-empty
\* line of demo.txt has been given to predict.
C8_EveryLineAttempted ==
    demo_pc = "done" =>
        \A k \in 1..Len(demo_lines) :
            Len(demo_lines[k]) # 0 => k \in attempted

=============================================================================
